---- MODULE Spec2Model ----
(***************************************************************************)
(* Model of mmdb-server (src/mmdb_server/mmdb_server.py): the MMDBServer   *)
(* object, its startup, the two falcon resources GeoLookup and MyGeoLookup,*)
(* the signal handler and cleanup.  The process is single threaded: the    *)
(* wsgiref server handles requests inside httpd.serve_forever() on the     *)
(* main thread, and Python runs signal handlers on the main thread, on top *)
(* of whatever frame was executing.                                        *)
(***************************************************************************)
EXTENDS Integers, Sequences, FiniteSets, TLC

VARIABLES
    pubsub,            \* self.pubsub
    mmdb_files,        \* self.mmdb_files
    country_info,      \* self.country_info
    mmdbs,             \* self.mmdbs
    loading,           \* local list `mmdbs` of _load_mmdb_databases
    closed,            \* reader.closed of each opened reader
    rdb,               \* self.rdb
    httpd,             \* self.httpd
    handlers,          \* signals whose handler is self.signal_handler
    shutdown_request,  \* socketserver BaseServer.__shutdown_request
    is_shut_down,      \* socketserver BaseServer.__is_shut_down (an Event)
    listening,         \* the listening socket is open
    pc,                \* position of the main thread outside signal handlers
    frames,            \* stack of running cleanup() calls, innermost last
    req,               \* the request being handled
    resp,              \* the response of the request being handled
    idx,               \* loop position of lookup_ip
    ret,               \* local list `ret` of lookup_ip
    exit_status,       \* process exit status, NoExit while running
    nsignals,          \* signals delivered so far
    trigger,           \* what first started a shutdown
    outcome,           \* per database, what reader.get gave in this request
                       \* and what became of it
    src,               \* per element of ret, the database it came from
    published          \* event texts handed to rdb.publish in this request

vars == <<pubsub, mmdb_files, country_info, mmdbs, loading, closed, rdb, httpd,
          handlers, shutdown_request, is_shut_down, listening, pc, frames,
          req, resp, idx, ret, exit_status, nsignals, trigger, outcome, src,
          published>>

(***************************************************************************)
(* Bounds                                                                  *)
(***************************************************************************)
MaxDbs == 2
MaxSignals == 2

(***************************************************************************)
(* Python values.  Each kind of value is a record with its own field name, *)
(* a dict is a function from its keys.                                     *)
(***************************************************************************)
PyNone == [none |-> TRUE]
PyStr(s) == [str |-> s]
PyInt(n) == [int |-> n]
PyDict(f) == [map |-> f]
EmptyDict == [k \in {} |-> k]
IsDict(v) == DOMAIN v = {"map"}
DictUpdate(a, b) ==
    [k \in DOMAIN a \cup DOMAIN b |-> IF k \in DOMAIN b THEN b[k] ELSE a[k]]
Returns(v) == [ret |-> v]
Raises(e) == [exc |-> e]
Raised(r) == DOMAIN r = {"exc"}
NoExit == -1

(***************************************************************************)
(* The environment: configuration, files, databases, clients.              *)
(***************************************************************************)
Signals == {"SIGTERM", "SIGINT"}
Path(j) == [mmdb |-> j]
MmdbFileLists == {[j \in 1..n |-> Path(j)] : n \in 1..MaxDbs}
FileMetadata(path) ==
    [description |-> [en |-> path],
     build_epoch |-> 1000 + path.mmdb,
     database_type |-> IF path.mmdb % 2 = 1 THEN "GeoOpen-Country"
                                            ELSE "GeoOpen-ASN",
     node_count |-> 100 * path.mmdb]
Belgium == [name |-> "Belgium", alpha2 |-> "BE"]
Placeholder == [name |-> "placeholder", alpha2 |-> "--"]
CountryFiles ==
    { [c \in {"BE"} |-> Belgium],
      [c \in {"", "Unknown"} |-> Placeholder] }
Codes == {"BE", "", "Unknown", "ZZ"}
Direct == <<"10.0.0.1">>
Forwarded == <<"not-an-ip", "10.0.0.1">>
Curl == PyStr("curl/8.0")
IPLiterals == {"1.2.3.4", "::1", "10.0.0.1"}
CountryOf(code) == "country" :> PyDict("iso_code" :> PyStr(code))
GeoResults ==
    { PyNone,
      PyDict(CountryOf("BE") @@ "city" :> PyStr("Brussels")),
      PyDict("city" :> PyStr("Brussels")),
      PyDict("country" :> PyDict("names" :> PyStr("Belgium"))),
      PyDict("country" :> PyInt(56)),
      PyDict(CountryOf("") @@ "meta" :> PyStr("m") @@ "ip" :> PyStr("0.0.0.0")
             @@ "country_info" :> PyStr("c")) }
GetOutcomes == {Returns(g) : g \in GeoResults} \cup {Raises("InvalidDatabaseError")}

(***************************************************************************)
(* Library calls of the startup and of the request path.                   *)
(***************************************************************************)
\* ipaddress.ip_address: the address object, or ValueError
ip_address(address) ==
    IF address \in IPLiterals THEN Returns(PyStr(address))
                              ELSE Raises("ValueError")

\* time.strftime("%Y-%m-%d %H:%M:%S", time.localtime(epoch))
strftime(epoch) == [format |-> "%Y-%m-%d %H:%M:%S", localtime |-> epoch]

\* str() of a header value inside an f-string
Str(v) == IF v = PyNone THEN PyStr("None") ELSE v

\* f"{value} via {ips} using {ua}", as the sequence of its pieces
EventText(value, ips, ua) ==
    << PyStr(value), PyStr(" via "), [list |-> ips], PyStr(" using "), Str(ua) >>

(***************************************************************************)
(* MMDBServer                                                              *)
(***************************************************************************)
\* the MMDBMeta built by one iteration of _load_mmdb_databases
MMDBMeta(j, mmdb_file) ==
    LET metadata == FileMetadata(mmdb_file)
    IN  [reader |-> j,
         description |-> metadata.description,
         build_db |-> strftime(metadata.build_epoch),
         db_source |-> metadata.database_type,
         nb_nodes |-> metadata.node_count]

\* variant: the except clause answers True
valid_ip_address_lenient(ip_addr) ==
    Raised(ip_address(ip_addr)) \/ ~Raised(ip_address(ip_addr))

valid_ip_address(ip_addr) == ~Raised(ip_address(ip_addr))

\* variant: the guard on "Unknown" is always true
country_lookup_unguarded(country) ==
    IF IsDict(country)
    THEN Raises("TypeError")
    ELSE IF DOMAIN country = {"str"} /\ country.str \in DOMAIN country_info
         THEN Returns(country_info[country.str])
         ELSE Returns(EmptyDict)

country_lookup(country) ==
    IF country # PyStr("Unknown")
    THEN IF IsDict(country)
         THEN Raises("TypeError")
         ELSE IF DOMAIN country = {"str"} /\ country.str \in DOMAIN country_info
              THEN Returns(country_info[country.str])
              ELSE Returns(EmptyDict)
    ELSE Returns(EmptyDict)

(***************************************************************************)
(* BaseGeoLookup                                                           *)
(***************************************************************************)
\* the dict `result` before result.update(georesult)
MetaOf(mmdb) ==
    PyDict([description |-> mmdb.description,
            build_db |-> mmdb.build_db,
            db_source |-> mmdb.db_source,
            nb_nodes |-> mmdb.nb_nodes])

\* "country" in georesult and "iso_code" in georesult["country"]
HasIsoCode(georesult) ==
    IF "country" \in DOMAIN georesult.map
    THEN LET country == georesult.map["country"]
         IN  IF IsDict(country)
             THEN Returns("iso_code" \in DOMAIN country.map)
             ELSE Raises("TypeError")
    ELSE Returns(FALSE)

\* variant: result.update(georesult) runs last
process_georesult_update_last(georesult, mmdb, ip) ==
    IF ~IsDict(georesult)
    THEN Raises("TypeError")
    ELSE LET result == "meta" :> MetaOf(mmdb) @@ "ip" :> PyStr(ip)
             has == HasIsoCode(georesult)
         IN  IF Raised(has)
             THEN has
             ELSE IF has.ret
                  THEN LET info == country_lookup(
                                      georesult.map["country"].map["iso_code"])
                       IN  IF Raised(info)
                           THEN info
                           ELSE Returns(DictUpdate(DictUpdate(result,
                                    "country_info" :> PyDict(info.ret)),
                                    georesult.map))
                  ELSE Returns(DictUpdate(DictUpdate(result,
                                    "country_info" :> PyDict(EmptyDict)),
                                    georesult.map))

process_georesult(georesult, mmdb, ip) ==
    IF ~IsDict(georesult)
    THEN Raises("TypeError")
    ELSE LET result == DictUpdate("meta" :> MetaOf(mmdb) @@ "ip" :> PyStr(ip),
                                  georesult.map)
             has == HasIsoCode(georesult)
         IN  IF Raised(has)
             THEN has
             ELSE IF has.ret
                  THEN LET info == country_lookup(
                                      georesult.map["country"].map["iso_code"])
                       IN  IF Raised(info)
                           THEN info
                           ELSE Returns(DictUpdate(result,
                                    "country_info" :> PyDict(info.ret)))
                  ELSE Returns(DictUpdate(result,
                                    "country_info" :> PyDict(EmptyDict)))

(***************************************************************************)
(* Initial state: the process has started, MMDBServer() has read the       *)
(* configuration and is about to load the country file.                    *)
(***************************************************************************)
Unset == [unset |-> TRUE]
NoRequest == [endpoint |-> "none"]
NoResponse == [status |-> 0]
NotQueried == [j \in 1..Len(mmdbs) |-> [did |-> "-"]]
Did(what, got) == [did |-> what, got |-> got]

Init ==
    /\ pubsub \in BOOLEAN
    /\ mmdb_files \in MmdbFileLists
    /\ country_info = Unset
    /\ mmdbs = <<>>
    /\ loading = <<>>
    /\ closed = <<>>
    /\ rdb = "None"
    /\ httpd = "None"
    /\ handlers = {}
    /\ shutdown_request = FALSE
    /\ is_shut_down = FALSE
    /\ listening = FALSE
    /\ pc = "load_country_info"
    /\ frames = <<>>
    /\ req = NoRequest
    /\ resp = NoResponse
    /\ idx = 0
    /\ ret = <<>>
    /\ exit_status = NoExit
    /\ nsignals = 0
    /\ trigger = "none"
    /\ outcome = <<>>
    /\ src = <<>>
    /\ published = <<>>

\* variant: the code below keeps running while a signal handler runs, as it
\* would on a thread of its own
Running_threaded(at) == pc = at

\* the main thread runs its own code only while no signal handler is running
Running(at) == pc = at /\ frames = <<>>

\* an exception nobody catches ends the process with status 1
Traceback == pc' = "exited" /\ exit_status' = 1

(***************************************************************************)
(* MMDBServer.__init__                                                     *)
(***************************************************************************)
load_country_info ==
    /\ Running("load_country_info")
    /\ \/ \E table \in CountryFiles :
             /\ country_info' = table
             /\ pc' = "load_mmdb_databases"
             /\ UNCHANGED exit_status
       \/ Traceback /\ UNCHANGED country_info
    /\ UNCHANGED <<pubsub, mmdb_files, mmdbs, loading, closed, rdb, httpd,
                   handlers, shutdown_request, is_shut_down, listening, frames,
                   req, resp, idx, ret, nsignals, trigger, outcome, src,
                   published>>

\* variant: once a database has opened, one that fails to open ends the loop
\* and the list so far becomes self.mmdbs
load_mmdb_databases_partial ==
    /\ Running("load_mmdb_databases")
    /\ LET j == Len(loading) + 1
           opened == Append(loading, MMDBMeta(j, mmdb_files[j]))
       IN  \/ /\ loading' = opened
              /\ closed' = Append(closed, FALSE)
              /\ IF j = Len(mmdb_files)
                 THEN mmdbs' = opened /\ pc' = "setup_redis"
                 ELSE UNCHANGED <<mmdbs, pc>>
              /\ UNCHANGED exit_status
           \/ /\ loading # <<>>
              /\ mmdbs' = loading
              /\ pc' = "setup_redis"
              /\ UNCHANGED <<loading, closed, exit_status>>
           \/ loading = <<>> /\ Traceback /\ UNCHANGED <<loading, closed, mmdbs>>
    /\ UNCHANGED <<pubsub, mmdb_files, country_info, rdb, httpd, handlers,
                   shutdown_request, is_shut_down, listening, frames, req,
                   resp, idx, ret, nsignals, trigger, outcome, src, published>>

\* one iteration of the loop; the list becomes self.mmdbs after the last one
load_mmdb_databases ==
    /\ Running("load_mmdb_databases")
    /\ LET j == Len(loading) + 1
           opened == Append(loading, MMDBMeta(j, mmdb_files[j]))
       IN  \/ /\ loading' = opened
              /\ closed' = Append(closed, FALSE)
              /\ IF j = Len(mmdb_files)
                 THEN mmdbs' = opened /\ pc' = "setup_redis"
                 ELSE UNCHANGED <<mmdbs, pc>>
              /\ UNCHANGED exit_status
           \/ Traceback /\ UNCHANGED <<loading, closed, mmdbs>>
    /\ UNCHANGED <<pubsub, mmdb_files, country_info, rdb, httpd, handlers,
                   shutdown_request, is_shut_down, listening, frames, req,
                   resp, idx, ret, nsignals, trigger, outcome, src, published>>

\* self.rdb, self.httpd = None, self.app
setup_redis ==
    /\ Running("setup_redis")
    /\ rdb' = IF pubsub THEN "Redis" ELSE "None"
    /\ httpd' = "None"
    /\ pc' = "signal_SIGTERM"
    /\ UNCHANGED <<pubsub, mmdb_files, country_info, mmdbs, loading, closed,
                   handlers, shutdown_request, is_shut_down, listening, frames,
                   req, resp, idx, ret, exit_status, nsignals, trigger,
                   outcome, src, published>>

(***************************************************************************)
(* MMDBServer.serve_forever                                                *)
(***************************************************************************)
install_SIGTERM ==
    /\ Running("signal_SIGTERM")
    /\ handlers' = handlers \cup {"SIGTERM"}
    /\ pc' = "signal_SIGINT"
    /\ UNCHANGED <<pubsub, mmdb_files, country_info, mmdbs, loading, closed,
                   rdb, httpd, shutdown_request, is_shut_down, listening,
                   frames, req, resp, idx, ret, exit_status, nsignals, trigger,
                   outcome, src, published>>

install_SIGINT ==
    /\ Running("signal_SIGINT")
    /\ handlers' = handlers \cup {"SIGINT"}
    /\ pc' = "make_server"
    /\ UNCHANGED <<pubsub, mmdb_files, country_info, mmdbs, loading, closed,
                   rdb, httpd, shutdown_request, is_shut_down, listening,
                   frames, req, resp, idx, ret, exit_status, nsignals, trigger,
                   outcome, src, published>>

\* make_server binds the port, or raises OSError outside of any try
make_server ==
    /\ Running("make_server")
    /\ \/ /\ httpd' = "WSGIServer"
          /\ listening' = TRUE
          /\ pc' = "serve_forever"
          /\ UNCHANGED exit_status
       \/ Traceback /\ UNCHANGED <<httpd, listening>>
    /\ UNCHANGED <<pubsub, mmdb_files, country_info, mmdbs, loading, closed,
                   rdb, handlers, shutdown_request, is_shut_down, frames, req,
                   resp, idx, ret, nsignals, trigger, outcome, src, published>>

\* httpd.serve_forever() starts: socketserver clears the event, enters its loop
enter_serve_forever ==
    /\ Running("serve_forever")
    /\ is_shut_down' = FALSE
    /\ pc' = "serving"
    /\ UNCHANGED <<pubsub, mmdb_files, country_info, mmdbs, loading, closed,
                   rdb, httpd, handlers, shutdown_request, listening, frames,
                   req, resp, idx, ret, exit_status, nsignals, trigger,
                   outcome, src, published>>

\* httpd.serve_forever() raises: its finally clause runs, then the except
\* clause of MMDBServer.serve_forever is entered
serve_error ==
    /\ Running("serving")
    /\ shutdown_request' = FALSE
    /\ is_shut_down' = TRUE
    /\ pc' = "except"
    /\ trigger' = IF trigger = "none" THEN "error" ELSE trigger
    /\ UNCHANGED <<pubsub, mmdb_files, country_info, mmdbs, loading, closed,
                   rdb, httpd, handlers, listening, frames, req, resp, idx,
                   ret, exit_status, nsignals, outcome, src, published>>

(***************************************************************************)
(* Requests.  falcon calls on_get of the resource the route names, with a  *)
(* fresh Response (status 200, no media).                                  *)
(***************************************************************************)
ExplicitRoute == "/geolookup/{value}"
RootRoute == "/"
Requests ==
    { [endpoint |-> ExplicitRoute, value |-> "1.2.3.4", ips |-> Direct,
       ua |-> Curl],
      [endpoint |-> ExplicitRoute, value |-> "::1", ips |-> Forwarded,
       ua |-> PyNone],
      [endpoint |-> ExplicitRoute, value |-> "1.2.3.4.5", ips |-> Direct,
       ua |-> Curl],
      [endpoint |-> RootRoute, ips |-> Direct, ua |-> Curl],
      [endpoint |-> RootRoute, ips |-> Forwarded, ua |-> PyNone] }
InvalidFormat ==
    PyStr("IPv4 or IPv6 address is in an incorrect format.Dotted decimal for IPv4 or textual representation for IPv6 are required.")

\* the argument `ip` of lookup_ip
Ip == IF req.endpoint = ExplicitRoute THEN req.value ELSE req.ips[1]

\* reader.get(ip): an answer, None, or an exception
ReaderGet(reader, ip) ==
    IF Raised(ip_address(ip)) THEN {Raises("ValueError")} ELSE GetOutcomes

\* an exception leaves on_get: falcon answers 500
InternalServerError == [status |-> 500, media |-> PyStr("Internal Server Error")]

request ==
    /\ Running("serving")
    /\ \E r \in Requests :
          /\ req' = r
          /\ pc' = IF r.endpoint = ExplicitRoute THEN "GeoLookup.on_get"
                                                 ELSE "MyGeoLookup.on_get"
    /\ resp' = [status |-> 200, media |-> PyNone]
    /\ idx' = 0
    /\ ret' = <<>>
    /\ src' = <<>>
    /\ published' = <<>>
    /\ outcome' = NotQueried
    /\ UNCHANGED <<pubsub, mmdb_files, country_info, mmdbs, loading, closed,
                   rdb, httpd, handlers, shutdown_request, is_shut_down,
                   listening, frames, exit_status, nsignals, trigger>>

\* GeoLookup.on_get up to the call of pub_lookup
GeoLookup_on_get ==
    /\ Running("GeoLookup.on_get")
    /\ IF ~valid_ip_address(req.value)
       THEN /\ resp' = [status |-> 422, media |-> InvalidFormat]
            /\ pc' = "respond"
       ELSE /\ pc' = "pub_lookup"
            /\ UNCHANGED resp
    /\ UNCHANGED <<pubsub, mmdb_files, country_info, mmdbs, loading, closed,
                   rdb, httpd, handlers, shutdown_request, is_shut_down,
                   listening, frames, req, idx, ret, exit_status, nsignals,
                   trigger, outcome, src, published>>

\* self.rdb.publish("mmdb-server::lookup", ...)
Channel == "mmdb-server::lookup"

\* variant: the test on self.rdb is inverted
Publishing_inverted == pubsub /\ rdb = "None"

\* not (not self.pubsub or not self.rdb)
Publishing == pubsub /\ rdb # "None"

\* variant: pub_lookup publishes without testing self.pubsub and self.rdb
pub_lookup_unconditional ==
    /\ Running("pub_lookup")
    /\ \E raised \in BOOLEAN :
          /\ published' = Append(published,
                  [channel |-> Channel,
                   message |-> EventText(req.value, req.ips, req.ua),
                   raised |-> raised])
          /\ IF raised
             THEN /\ resp' = InternalServerError
                  /\ pc' = "respond"
                  /\ UNCHANGED idx
             ELSE pc' = "lookup_ip" /\ idx' = 1 /\ UNCHANGED resp
    /\ UNCHANGED <<pubsub, mmdb_files, country_info, mmdbs, loading, closed,
                   rdb, httpd, handlers, shutdown_request, is_shut_down,
                   listening, frames, req, ret, exit_status, nsignals,
                   trigger, outcome, src>>

\* self.server.pub_lookup(value=f"{value} via {ips} using {ua}"); rdb.publish
\* runs in no try block, so what it raises leaves on_get
pub_lookup ==
    /\ Running("pub_lookup")
    /\ IF Publishing
       THEN \E raised \in BOOLEAN :
            /\ published' = Append(published,
                    [channel |-> Channel,
                     message |-> EventText(req.value, req.ips, req.ua),
                     raised |-> raised])
            /\ IF raised
               THEN /\ resp' = InternalServerError
                    /\ pc' = "respond"
                    /\ UNCHANGED idx
               ELSE pc' = "lookup_ip" /\ idx' = 1 /\ UNCHANGED resp
       ELSE /\ pc' = "lookup_ip"
            /\ idx' = 1
            /\ UNCHANGED <<resp, published>>
    /\ UNCHANGED <<pubsub, mmdb_files, country_info, mmdbs, loading, closed,
                   rdb, httpd, handlers, shutdown_request, is_shut_down,
                   listening, frames, req, ret, exit_status, nsignals,
                   trigger, outcome, src>>

\* MyGeoLookup.on_get up to the call of lookup_ip
MyGeoLookup_on_get ==
    /\ Running("MyGeoLookup.on_get")
    /\ IF req.ips # <<>>
       THEN pc' = "lookup_ip" /\ idx' = 1
       ELSE pc' = "respond" /\ UNCHANGED idx
    /\ UNCHANGED <<pubsub, mmdb_files, country_info, mmdbs, loading, closed,
                   rdb, httpd, handlers, shutdown_request, is_shut_down,
                   listening, frames, req, resp, ret, exit_status, nsignals,
                   trigger, outcome, src, published>>

\* variant: the registry is walked backwards
Iterate_reversed(i) == mmdbs[Len(mmdbs) + 1 - i]

\* for mmdb in self.server.mmdbs
Iterate(i) == mmdbs[i]

\* variant: the except clause leaves the loop
AfterExcept_break(i) == Len(mmdbs) + 1

\* where the loop goes after the except clause: continue
AfterExcept(i) == i + 1

\* one iteration of the loop of lookup_ip; after the last one the list is
\* returned and becomes resp.media
lookup_ip ==
    /\ Running("lookup_ip")
    /\ LET mmdb == Iterate(idx)
       IN  \E got \in ReaderGet(mmdb.reader, Ip) :
            LET processed ==
                    IF Raised(got) \/ got.ret = PyNone
                    THEN got
                    ELSE process_georesult(got.ret, mmdb, Ip)
                next == IF Raised(processed) THEN AfterExcept(idx)
                                             ELSE idx + 1
            IN  /\ IF Raised(processed)
                   THEN /\ outcome' = [outcome EXCEPT ![mmdb.reader] =
                                                  Did("raised", got)]
                        /\ UNCHANGED <<ret, src>>
                   ELSE IF processed.ret = PyNone
                   THEN /\ outcome' = [outcome EXCEPT ![mmdb.reader] =
                                                  Did("absent", got)]
                        /\ UNCHANGED <<ret, src>>
                   ELSE /\ outcome' = [outcome EXCEPT ![mmdb.reader] =
                                                  Did("ok", got)]
                        /\ ret' = Append(ret, processed.ret)
                        /\ src' = Append(src, mmdb.reader)
                /\ idx' = next
                /\ IF next > Len(mmdbs)
                   THEN /\ resp' = [resp EXCEPT !.media = [list |-> ret']]
                        /\ pc' = "respond"
                   ELSE UNCHANGED <<resp, pc>>
    /\ UNCHANGED <<pubsub, mmdb_files, country_info, mmdbs, loading, closed,
                   rdb, httpd, handlers, shutdown_request, is_shut_down,
                   listening, frames, req, exit_status, nsignals, trigger,
                   published>>

\* on_get has returned: the response is sent, the server loop goes on
respond ==
    /\ Running("respond")
    /\ pc' = "serving"
    /\ req' = NoRequest
    /\ resp' = NoResponse
    /\ idx' = 0
    /\ ret' = <<>>
    /\ src' = <<>>
    /\ published' = <<>>
    /\ outcome' = <<>>
    /\ UNCHANGED <<pubsub, mmdb_files, country_info, mmdbs, loading, closed,
                   rdb, httpd, handlers, shutdown_request, is_shut_down,
                   listening, frames, exit_status, nsignals, trigger>>

(***************************************************************************)
(* Shutdown.  A running cleanup() is a frame [kind, step, k]: kind says    *)
(* who called it (signal_handler or the except clause of serve_forever),   *)
(* step where it is, k the position of its loop over self.mmdbs.  A signal *)
(* handler runs on top of the interrupted frame, which resumes only when   *)
(* the handler returns.                                                    *)
(***************************************************************************)
Top == frames[Len(frames)]
InCleanup(step) == frames # <<>> /\ Top.step = step
\* variant: cleanup() begins with the HTTP server and closes no reader
Enter_at_shutdown(kind) == [kind |-> kind, step |-> "shutdown", k |-> 1]

Enter(kind) == [kind |-> kind, step |-> "close_mmdb", k |-> 1]
Goto(step) == frames' = [frames EXCEPT ![Len(frames)].step = step]

\* a signal with an installed handler arrives: signal_handler calls cleanup
signal_handler ==
    /\ pc # "exited"
    /\ nsignals < MaxSignals
    /\ \E signum \in Signals : signum \in handlers
    /\ nsignals' = nsignals + 1
    /\ frames' = Append(frames, Enter("signal"))
    /\ trigger' = IF trigger = "none" THEN "signal" ELSE trigger
    /\ UNCHANGED <<pubsub, mmdb_files, country_info, mmdbs, loading, closed,
                   rdb, httpd, handlers, shutdown_request, is_shut_down,
                   listening, pc, req, resp, idx, ret, exit_status, outcome,
                   src, published>>

\* except Exception as e: logger.error(...); self.cleanup()
except_cleanup ==
    /\ Running("except")
    /\ pc' = "cleanup"
    /\ frames' = <<Enter("error")>>
    /\ UNCHANGED <<pubsub, mmdb_files, country_info, mmdbs, loading, closed,
                   rdb, httpd, handlers, shutdown_request, is_shut_down,
                   listening, req, resp, idx, ret, exit_status, nsignals,
                   trigger, outcome, src, published>>

\* variant: the loop also rewrites the handle it closes, recording the close
\* in mmdb["db_source"]
cleanup_close_mmdb_marks ==
    /\ InCleanup("close_mmdb")
    /\ LET k == Top.k
       IN  /\ \/ /\ closed' = [closed EXCEPT ![mmdbs[k].reader] = TRUE]
                 /\ mmdbs' = [mmdbs EXCEPT ![k].db_source = "closed"]
              \/ UNCHANGED <<closed, mmdbs>>
           /\ frames' = [frames EXCEPT ![Len(frames)] =
                           IF k < Len(mmdbs)
                           THEN [@ EXCEPT !.k = k + 1]
                           ELSE [@ EXCEPT !.step = "close_rdb"]]
    /\ UNCHANGED <<pubsub, mmdb_files, country_info, loading, rdb,
                   httpd, handlers, shutdown_request, is_shut_down, listening,
                   pc, req, resp, idx, ret, exit_status, nsignals, trigger,
                   outcome, src, published>>

\* one iteration of the loop over self.mmdbs: close the reader, log a failure
cleanup_close_mmdb ==
    /\ InCleanup("close_mmdb")
    /\ LET k == Top.k
       IN  /\ \/ closed' = [closed EXCEPT ![mmdbs[k].reader] = TRUE]
              \/ UNCHANGED closed
           /\ frames' = [frames EXCEPT ![Len(frames)] =
                           IF k < Len(mmdbs)
                           THEN [@ EXCEPT !.k = k + 1]
                           ELSE [@ EXCEPT !.step = "close_rdb"]]
    /\ UNCHANGED <<pubsub, mmdb_files, country_info, mmdbs, loading, rdb,
                   httpd, handlers, shutdown_request, is_shut_down, listening,
                   pc, req, resp, idx, ret, exit_status, nsignals, trigger,
                   outcome, src, published>>

\* if self.rdb: self.rdb.close(), a failure is logged
cleanup_close_rdb ==
    /\ InCleanup("close_rdb")
    /\ IF rdb # "None"
       THEN rdb' = "closed" \/ UNCHANGED rdb
       ELSE UNCHANGED rdb
    /\ Goto("shutdown")
    /\ UNCHANGED <<pubsub, mmdb_files, country_info, mmdbs, loading, closed,
                   httpd, handlers, shutdown_request, is_shut_down, listening,
                   pc, req, resp, idx, ret, exit_status, nsignals, trigger,
                   outcome, src, published>>

\* if self.httpd: self.httpd.shutdown() sets the request flag, then waits
cleanup_shutdown ==
    /\ InCleanup("shutdown")
    /\ IF httpd # "None"
       THEN shutdown_request' = TRUE /\ Goto("wait")
       ELSE UNCHANGED shutdown_request /\ Goto("return")
    /\ UNCHANGED <<pubsub, mmdb_files, country_info, mmdbs, loading, closed,
                   rdb, httpd, handlers, is_shut_down, listening, pc, req,
                   resp, idx, ret, exit_status, nsignals, trigger, outcome,
                   src, published>>

\* socketserver shutdown(): self.__is_shut_down.wait() returns once the event
\* is set, which only the finally clause of httpd.serve_forever() does
cleanup_wait ==
    /\ InCleanup("wait")
    /\ is_shut_down
    /\ Goto("server_close")
    /\ UNCHANGED <<pubsub, mmdb_files, country_info, mmdbs, loading, closed,
                   rdb, httpd, handlers, shutdown_request, is_shut_down,
                   listening, pc, req, resp, idx, ret, exit_status, nsignals,
                   trigger, outcome, src, published>>

\* self.httpd.server_close()
cleanup_server_close ==
    /\ InCleanup("server_close")
    /\ listening' = FALSE
    /\ Goto("return")
    /\ UNCHANGED <<pubsub, mmdb_files, country_info, mmdbs, loading, closed,
                   rdb, httpd, handlers, shutdown_request, is_shut_down, pc,
                   req, resp, idx, ret, exit_status, nsignals, trigger,
                   outcome, src, published>>

\* the status the caller of cleanup() passes to sys.exit
ExitStatus(kind) == IF kind = "signal" THEN 0 ELSE 1

\* variant: signal_handler returns after cleanup() without calling sys.exit,
\* and the interrupted code resumes
cleanup_return_resumes ==
    /\ InCleanup("return")
    /\ IF Top.kind = "signal"
       THEN /\ frames' = SubSeq(frames, 1, Len(frames) - 1)
            /\ UNCHANGED <<exit_status, pc>>
       ELSE /\ exit_status' = ExitStatus(Top.kind)
            /\ pc' = "exited"
            /\ frames' = <<>>
    /\ UNCHANGED <<pubsub, mmdb_files, country_info, mmdbs, loading, closed,
                   rdb, httpd, handlers, shutdown_request, is_shut_down,
                   listening, req, resp, idx, ret, nsignals, trigger, outcome,
                   src, published>>

\* cleanup() returns and its caller calls sys.exit.  SystemExit is not an
\* Exception: no except clause of the interrupted frames catches it.
cleanup_return ==
    /\ InCleanup("return")
    /\ exit_status' = ExitStatus(Top.kind)
    /\ pc' = "exited"
    /\ frames' = <<>>
    /\ UNCHANGED <<pubsub, mmdb_files, country_info, mmdbs, loading, closed,
                   rdb, httpd, handlers, shutdown_request, is_shut_down,
                   listening, req, resp, idx, ret, nsignals, trigger, outcome,
                   src, published>>

(***************************************************************************)
(* Specifications                                                          *)
(***************************************************************************)
\* the steps the process takes by itself
Step ==
    \/ load_country_info
    \/ load_mmdb_databases
    \/ setup_redis
    \/ install_SIGTERM
    \/ install_SIGINT
    \/ make_server
    \/ enter_serve_forever
    \/ GeoLookup_on_get
    \/ pub_lookup
    \/ MyGeoLookup_on_get
    \/ lookup_ip
    \/ respond
    \/ except_cleanup
    \/ cleanup_close_mmdb
    \/ cleanup_close_rdb
    \/ cleanup_shutdown
    \/ cleanup_wait
    \/ cleanup_server_close
    \/ cleanup_return

\* what its environment does to it
Environment ==
    \/ request
    \/ signal_handler
    \/ serve_error

Next == Step \/ Environment

Spec == Init /\ [][Next]_vars

\* the interpreter keeps running the main thread while it has a step to take
FairSpec == Spec /\ WF_vars(Step)

(***************************************************************************)
(* Properties                                                              *)
(***************************************************************************)
Dbs == 1..Len(mmdbs)
Explicit == req.endpoint = ExplicitRoute
Literal == req.value \in IPLiterals
Queried(j) == outcome[j].did # "-"
LookupDone == req # NoRequest /\ idx > Len(mmdbs)

\* C1: a request to GET /geolookup/{address} whose address is no IPv4 or IPv6
\* literal is answered 422, and no reader is queried while it is handled.
C1_InvalidAddress ==
    (Explicit /\ ~Literal) =>
        /\ \A j \in Dbs : ~Queried(j)
        /\ pc = "respond" => resp.status = 422

C1_Witness ==
    Explicit /\ ~Literal /\ pc = "respond" /\ resp.status = 422

\* C2: when lookup_ip has gone through the registry, every database has been
\* asked, the list it returns is the response, no exception has reached the
\* caller, and the list holds exactly one entry for each database that gave a
\* non-empty answer without raising and none for a database that raised.
C2_FailureIsolation ==
    LookupDone =>
        /\ pc = "respond"
        /\ resp = [status |-> 200, media |-> [list |-> ret]]
        /\ \A j \in Dbs :
              /\ Queried(j)
              /\ Cardinality({k \in 1..Len(src) : src[k] = j})
                    = IF outcome[j].did = "ok" THEN 1 ELSE 0

C2_Witness ==
    /\ LookupDone
    /\ \E j \in Dbs : outcome[j].did = "raised" /\ ~Raised(outcome[j].got)
    /\ \E j \in Dbs : outcome[j].did = "ok"

\* C3: the list built by lookup_ip has at most as many entries as there are
\* registered databases, none from a database whose answer was absent or whose
\* lookup failed, and its entries follow the order of registration.
C3_BoundedOrdered ==
    req # NoRequest =>
        /\ Len(ret) <= Len(mmdbs)
        /\ Len(src) = Len(ret)
        /\ \A k \in 1..Len(src) : outcome[src[k]].did = "ok"
        /\ \A k, l \in 1..Len(src) : k < l => src[k] < src[l]
        /\ \A j \in Dbs : mmdbs[j] = MMDBMeta(j, mmdb_files[j])

C3_Witness ==
    /\ pc = "respond"
    /\ Len(ret) >= 2
    /\ resp.media = [list |-> ret]

\* C4: every entry of the list carries under "meta" the metadata recorded for
\* its database at registration and under "ip" the queried address, whatever
\* fields the raw answer has.
C4_MetaAndIp ==
    \A k \in 1..Len(ret) :
        /\ ret[k]["meta"] = MetaOf(MMDBMeta(src[k], mmdb_files[src[k]]))
        /\ ret[k]["ip"] = PyStr(Ip)

Pieces(text) == {text[n] : n \in 1..Len(text)}
MentionsRequest(text) ==
    {PyStr(req.value), [list |-> req.ips], Str(req.ua)} \subseteq Pieces(text)
OnePublish ==
    /\ Len(published) = 1
    /\ published[1].channel = "mmdb-server::lookup"
    /\ MentionsRequest(published[1].message)

\* C5 as stated: with notifications enabled, every request to
\* GET /geolookup/{address} has caused exactly one publish on the fixed channel
\* when it is answered, its text naming the address, the forwarded chain and
\* the user agent, and the publish precedes every database query.
C5_OnePublishPerRequest ==
    (pubsub /\ Explicit) =>
        /\ Len(published) <= 1
        /\ (pc = "respond" \/ \E j \in Dbs : Queried(j)) => OnePublish

\* C5 as amended: with notifications enabled, a request to
\* GET /geolookup/{address} with a valid address has caused exactly one call of
\* publish on the fixed channel before the first database is queried and when
\* it is answered, its text naming the address, the forwarded chain and the
\* user agent, whatever the lookup gives; a request with an invalid address
\* publishes nothing.
C5_OnePublishPerValidRequest ==
    (pubsub /\ Explicit) =>
        /\ Len(published) <= 1
        /\ Literal =>
              ((pc \in {"lookup_ip", "respond"} \/ \E j \in Dbs : Queried(j))
                  => OnePublish)
        /\ ~Literal => published = <<>>

C5_Witness ==
    /\ pubsub /\ Explicit /\ Literal
    /\ pc = "respond"
    /\ resp.status = 200
    /\ OnePublish
    /\ \E j \in Dbs : outcome[j].did = "raised"

\* C6: when the publish of a valid explicit request fails, the request is
\* still answered 200 with the list lookup_ip built from every database.
C6_PublishFailureAbsorbed ==
    (Explicit /\ pc = "respond" /\ \E n \in 1..Len(published) : published[n].raised)
        => /\ resp = [status |-> 200, media |-> [list |-> ret]]
           /\ \A j \in Dbs : Queried(j)

Loaded == country_info # Unset
Found(code) == Returns(country_info[code])
Miss == Returns(EmptyDict)

\* C7 as stated: country_lookup gives the empty record for the empty string,
\* for "Unknown" and for a code that is no key of the table, and the stored
\* record otherwise.
C7_CountryLookup ==
    Loaded =>
        \A code \in Codes :
            country_lookup(PyStr(code)) =
                IF code = "" \/ code = "Unknown" \/ code \notin DOMAIN country_info
                THEN Miss ELSE Found(code)

C7_Cases ==
    Loaded =>
        \A code \in Codes :
            /\ ~Raised(country_lookup(PyStr(code)))
            /\ country_lookup(PyStr(code)) =
                  IF code = "Unknown" \/ code \notin DOMAIN country_info
                  THEN Miss ELSE Found(code)

\* C7 as amended: for every string code country_lookup returns without
\* raising; it gives the empty record for "Unknown" and for a code that is no
\* key of the table (the empty string like any other code), and the stored
\* record otherwise; no step of the program changes the loaded table, so a
\* second call gives the same record.
C7_CountryLookupByKey ==
    [][/\ Loaded' => C7_Cases'
       /\ Loaded => country_info' = country_info]_vars

Answer(k) == outcome[src[k]].got.ret.map

C7_Witness ==
    /\ "" \in DOMAIN country_info
    /\ \E k \in 1..Len(ret) :
          /\ "country" \in DOMAIN Answer(k)
          /\ Answer(k)["country"] = PyDict("iso_code" :> PyStr(""))
          /\ ret[k]["country_info"] = PyDict(country_info[""])

NestedIsoCode(g) ==
    /\ "country" \in DOMAIN g
    /\ IsDict(g["country"])
    /\ "iso_code" \in DOMAIN g["country"].map
Enrichment(g) ==
    IF NestedIsoCode(g)
    THEN PyDict(country_lookup(g["country"].map["iso_code"]).ret)
    ELSE PyDict(EmptyDict)

\* C8 as stated: an entry carries every field of its raw answer unchanged, and
\* its country_info is country_lookup(iso_code) when the answer has a nested
\* country.iso_code and the empty record otherwise.
C8_EntryFields ==
    \A k \in 1..Len(ret) :
        /\ \A f \in DOMAIN Answer(k) : ret[k][f] = Answer(k)[f]
        /\ ret[k]["country_info"] = Enrichment(Answer(k))

\* C8 as amended: an entry carries every field of its raw answer other than
\* one named country_info unchanged, and its country_info is
\* country_lookup(iso_code) when the answer has a nested country.iso_code and
\* the empty record otherwise.
C8_EntryFieldsButCountryInfo ==
    \A k \in 1..Len(ret) :
        /\ \A f \in DOMAIN Answer(k) \ {"country_info"} :
              ret[k][f] = Answer(k)[f]
        /\ ret[k]["country_info"] = Enrichment(Answer(k))

C8_Witness ==
    /\ "BE" \notin DOMAIN country_info
    /\ \E k \in 1..Len(ret) :
          /\ Answer(k) = CountryOf("BE") @@ "city" :> PyStr("Brussels")
          /\ ret[k]["country_info"] = PyDict(EmptyDict)
          /\ ret[k]["city"] = PyStr("Brussels")
    /\ \E k \in 1..Len(ret) : "country_info" \in DOMAIN Answer(k)

Serving == pc \in {"serving", "GeoLookup.on_get", "pub_lookup",
                   "MyGeoLookup.on_get", "lookup_ip", "respond"}
SignalWhileServing == Serving /\ frames # <<>> /\ frames[1].kind = "signal"
Stopped == pc = "exited"

\* C9: a signal received while the server is serving leads to the end of the
\* shutdown sequence and of the process.
C9_ShutdownCompletes == SignalWhileServing ~> Stopped

\* C10: the process exits with status 0 when a signal started the shutdown and
\* with a non-zero status when a serving error started it.
C10_ExitStatus ==
    Stopped =>
        /\ trigger = "signal" => exit_status = 0
        /\ trigger = "error" => exit_status # 0

\* a running cleanup() repeats a close or a stop that has already been done
RepeatsCloseOrStop ==
    \/ cleanup_close_mmdb /\ closed[mmdbs[Top.k].reader]
    \/ cleanup_close_rdb /\ rdb = "closed"
    \/ cleanup_shutdown /\ httpd # "None" /\ shutdown_request
    \/ cleanup_server_close /\ ~listening

\* C11: cleanup() is idempotent: no cleanup() closes a reader or the publisher
\* connection, or stops or closes the listener, that an earlier or interrupted
\* cleanup() has already closed or stopped.
C11_CleanupIdempotent == [][~RepeatsCloseOrStop]_vars

\* C12: once cleanup() has begun with a bound server, whatever the earlier
\* steps did, the last step, closing the listener, is attempted.
C12_LaterStepsAttempted ==
    (frames # <<>> /\ httpd # "None") ~> ~listening

Registered ==
    /\ Len(mmdbs) = Len(mmdb_files)
    /\ \A j \in 1..Len(mmdb_files) : mmdbs[j] = MMDBMeta(j, mmdb_files[j])
PublisherReady == pubsub => rdb = "Redis"
Bound == httpd = "WSGIServer" /\ listening

\* C13: the country table is loaded before any database is opened, every
\* configured database is registered before the publisher is set up, both
\* before the listener is bound, and all of it before the server serves; a
\* process that has ended, as it does when one of these steps fails, takes no
\* further step, and no reader is queried unless every database is registered.
C13_StartupOrder ==
    [][/\ loading' # loading => Loaded
       /\ rdb' # rdb /\ rdb = "None" => Loaded /\ Registered
       /\ httpd' # httpd => Loaded /\ Registered /\ PublisherReady
       /\ Serving' /\ ~Serving =>
             Loaded /\ Registered /\ PublisherReady /\ Bound
       /\ pc = "lookup_ip" /\ outcome' # outcome => Registered
       /\ pc = "exited" => pc' = "exited" /\ ~Serving']_vars

C13_Witness ==
    /\ pc = "lookup_ip"
    /\ \E j \in Dbs : Queried(j)
    /\ Len(mmdbs) = 2
    /\ rdb = "Redis"

\* reader.get is called on reader j in this step
Gets(j) == pc = "lookup_ip" /\ outcome'[j] # outcome[j]

\* C14: no reader is queried once cleanup() has closed it, whether the lookup
\* was in flight when the shutdown began or not.
C14_NoQueryAfterClose ==
    [][\A j \in Dbs : Gets(j) => ~closed[j]]_vars

C14_Witness ==
    /\ pc = "lookup_ip"
    /\ frames # <<>>
    /\ closed[Iterate(idx).reader]
    /\ \E j \in Dbs : Queried(j)

\* the serving loop runs and has not been told to stop
Accepting == httpd # "None" /\ Serving /\ ~shutdown_request
SomeClosed == \E j \in 1..Len(closed) : closed[j]
ToldToStop == ~shutdown_request /\ shutdown_request'
Accepted == req = NoRequest /\ req' # NoRequest

Phase ==
    IF pc = "exited" THEN "Stopped"
    ELSE IF frames # <<>> \/ pc \in {"except", "cleanup"} THEN "ShuttingDown"
    ELSE IF Serving THEN "Serving"
    ELSE "Initializing"
Rank(phase) ==
    CASE phase = "Initializing" -> 1
      [] phase = "Serving" -> 2
      [] phase = "ShuttingDown" -> 3
      [] phase = "Stopped" -> 4
Enters(phase) == Phase # phase /\ Phase' = phase

\* C16 as stated: the lifecycle state never moves backwards, ShuttingDown is
\* entered only from Serving, and no step is taken once Stopped.
C16_LinearLifecycle ==
    [][/\ Rank(Phase') >= Rank(Phase)
       /\ Enters("ShuttingDown") => Phase = "Serving"
       /\ Phase # "Stopped"]_vars

\* C16 as amended: the lifecycle state never moves backwards along
\* Initializing, Serving, ShuttingDown, Stopped: Serving is entered only from
\* Initializing and never after ShuttingDown, ShuttingDown is entered from
\* Serving or, when a signal arrives once a handler is installed and before
\* the server serves, from Initializing, and no step is taken once Stopped.
C16_ForwardLifecycle ==
    [][/\ Rank(Phase') >= Rank(Phase)
       /\ Enters("Serving") => Phase = "Initializing"
       /\ Enters("ShuttingDown") => Phase \in {"Serving", "Initializing"}
       /\ Enters("ShuttingDown") /\ Phase = "Initializing" =>
             handlers # {} /\ nsignals' = nsignals + 1
       /\ Phase # "Stopped"]_vars

C16_Witness ==
    /\ pc = "make_server"
    /\ InCleanup("return")
    /\ Phase = "ShuttingDown"

\* rdb.publish is called in this step
Publishes == Len(published') > Len(published)
Root == req.endpoint = RootRoute

\* C17: nothing is published when notifications are not configured, and
\* nothing is published while a request to GET / is handled, whether or not
\* notifications are configured.
C17_NoPublish ==
    [][/\ Publishes => pubsub /\ rdb # "None" /\ Explicit
       /\ ~pubsub \/ Root => published = <<>> /\ ~Publishes]_vars

C17_Witness ==
    /\ pc = "respond"
    /\ resp.status = 200
    /\ published = <<>>
    /\ \E j \in Dbs : Queried(j)
    /\ \/ ~pubsub /\ Explicit /\ Literal
       \/ pubsub /\ rdb = "Redis" /\ Root

\* C18: the only answer that is not 200 is the 422 of an explicit request with
\* a malformed address; every other request, whatever failed while it was
\* handled, is answered 200 after every database has been tried.
C18_OnlyValidationErrorSurfaces ==
    pc = "respond" =>
        IF Explicit /\ ~Literal
        THEN resp.status = 422
        ELSE resp.status = 200 /\ \A j \in Dbs : Queried(j)

\* __init__ has built the country table and the registry
StartupCompleted == Loaded /\ Registered

\* C19: once startup has completed, no step (a lookup on either endpoint, a
\* publish, a country lookup, cleanup) changes the registry, that is the
\* handles, their order and the metadata recorded in them, nor the country
\* table.
C19_RegistryAndTableFixed ==
    [][StartupCompleted =>
          /\ mmdbs' = mmdbs
          /\ country_info' = country_info
          /\ StartupCompleted']_vars

C19_Witness ==
    /\ StartupCompleted
    /\ pc = "respond"
    /\ Len(mmdbs) = 2
    /\ \E j \in Dbs : outcome[j].did = "ok" /\ closed[j]
    /\ \E n \in 1..Len(ret) : ret[n]["country_info"] = PyDict(Belgium)
    /\ frames # <<>>

====
